---------------------------- MODULE Spec2Model ----------------------------
(***************************************************************************)
(* A state-machine model of bib-check.py: main() constructs a BibConverter *)
(* from the command-line flags, reads the input file, and bib_convert      *)
(* walks the parsed entries: optional DBLP substitution (check_dblp with   *)
(* its interactive prompt), then schema reduction with optional AI         *)
(* rewriting (convert_article / convert_inproceedings), all inside one     *)
(* try/except per entry, followed by write_file.                           *)
(*                                                                         *)
(* External collaborators (the DBLP search and fetch, the chat-completion  *)
(* service, the terminal, the file system) are inputs: every outcome they  *)
(* can produce is drawn with \E from a small set.                          *)
(***************************************************************************)
EXTENDS Integers, Sequences, FiniteSets, TLC

(***************************************************************************)
(* Bounds of the model.                                                    *)
(***************************************************************************)
MaxEntries == 2      \* entries in the parsed library
MaxHits == 2         \* candidates returned by one DBLP search
MaxPrompts == 1      \* invalid answers the operator gives to one prompt loop
MaxChoiceLen == 2    \* characters in one answer typed at the prompt
MaxCalls == 2        \* direct calls of ai_revise in SpecRevise
MaxLog == 6          \* log records after which SpecNormalize stops normalizing again

None == "None"

(***************************************************************************)
(* Sequence helpers.                                                       *)
(***************************************************************************)
RECURSIVE SeqsUpTo(_, _)
SeqsUpTo(S, n) ==
    IF n = 0 THEN {<<>>}
    ELSE LET shorter == SeqsUpTo(S, n - 1)
         IN  shorter \cup {Append(s, x) : s \in {t \in shorter : Len(t) = n - 1}, x \in S}

Range(s) == {s[i] : i \in 1..Len(s)}

(***************************************************************************)
(* Entries and fields (bibtexparser.model.Entry / Field): an entry has a   *)
(* key, an entry_type and an ordered list of fields; a field has a key and *)
(* a value.  The parser rejects blocks with duplicate field keys, so the   *)
(* field keys of one entry are distinct.                                   *)
(***************************************************************************)
Fld(k, v) == [key |-> k, value |-> v]

Entry(k, t, fs) == [key |-> k, entry_type |-> t, fields |-> fs]

\* Entry.fields_dict / Entry.__contains__ for a field key.
HasField(fields, k) == \E i \in 1..Len(fields) : fields[i].key = k

\* Entry.fields_dict[k]: the position of the field with key k.
FieldIndex(fields, k) == CHOOSE i \in 1..Len(fields) : fields[i].key = k

\* Entry.__getitem__ for a field key.
FieldValue(fields, k) == fields[FieldIndex(fields, k)].value

FieldKeys(fields) == [i \in 1..Len(fields) |-> fields[i].key]

DistinctKeys(fields) ==
    \A i, j \in 1..Len(fields) : fields[i].key = fields[j].key => i = j

(***************************************************************************)
(* The requirement profiles of the two recognised entry types.             *)
(***************************************************************************)
ArticleRequired == <<"title", "author", "journal", "year">>

InproceedingsRequired == <<"title", "author", "booktitle", "year", "pages">>

KnownTypes == {"article", "inproceedings"}

Required(t) == IF t = "article" THEN ArticleRequired ELSE InproceedingsRequired

(***************************************************************************)
(* Inputs: the field lists an input file may hold.  They cover a complete  *)
(* article and a complete inproceedings with an extra field in an order    *)
(* other than the profile's, records that lack required fields, a record   *)
(* without a title, a record with an empty title, and an unrecognised type.*)
(***************************************************************************)
InputRecords ==
    { [entry_type |-> "article",
       fields |-> << Fld("note", "n"), Fld("year", "2020"), Fld("title", "hello world"),
                     Fld("journal", "foo"), Fld("author", "A") >>],
      [entry_type |-> "article",
       fields |-> << Fld("year", "2021"), Fld("title", "t2"), Fld("note", "n") >>],
      [entry_type |-> "article",
       fields |-> << Fld("title", ""), Fld("author", "B"), Fld("journal", "bar"),
                     Fld("year", "2022") >>],
      [entry_type |-> "inproceedings",
       fields |-> << Fld("pages", "1--2"), Fld("note", "n"), Fld("booktitle", "conf"),
                     Fld("author", "C"), Fld("year", "2023"), Fld("title", "t4") >>],
      [entry_type |-> "inproceedings",
       fields |-> << Fld("booktitle", "conf"), Fld("author", "D") >>],
      [entry_type |-> "book",
       fields |-> << Fld("publisher", "p"), Fld("title", "t6"), Fld("year", "2019") >>] }

\* The parser gives every entry of a library its own key.
EntryKey(i) == <<"k1", "k2", "k3", "k4">>[i]

Libraries ==
    { [i \in 1..Len(s) |-> Entry(EntryKey(i), s[i].entry_type, s[i].fields)] :
        s \in SeqsUpTo(InputRecords, MaxEntries) }


(***************************************************************************)
(* DBLP.  A search hit carries the URL of its bibtex record (hit["bibtex"])*)
(* and is identified with it.  DblpPayload is what parse_string makes of   *)
(* the text behind a URL: one entry for u1 and u2, none for u3, two for u4.*)
(***************************************************************************)
Urls == {"u1", "u2", "u3", "u4"}

DblpArticle ==
    [entry_type |-> "article", key |-> "DBLP:a",
     fields |-> << Fld("author", "dblp A"), Fld("title", "dblp title"),
                   Fld("journal", "CoRR"), Fld("volume", "1"), Fld("year", "2024") >>]

DblpThesis ==
    [entry_type |-> "phdthesis", key |-> "DBLP:b",
     fields |-> << Fld("author", "dblp B"), Fld("title", "dblp thesis"),
                   Fld("school", "S"), Fld("year", "2018") >>]

DblpPayload(url) ==
    CASE url = "u1" -> << DblpArticle >>
      [] url = "u2" -> << DblpThesis >>
      [] url = "u3" -> << >>
      [] OTHER      -> << DblpArticle, DblpThesis >>

\* What DblpSearch.search can return: any list of hits, in the index's order.
SearchResults == SeqsUpTo(Urls, MaxHits)

(***************************************************************************)
(* The diagnostics log: logger.warning / logger.error records.             *)
(***************************************************************************)
LogRec(level, msg, key, arg) == [level |-> level, msg |-> msg, key |-> key, arg |-> arg]

Warn(msg, key, arg) == LogRec("warning", msg, key, arg)

(***************************************************************************)
(* The prompt's answer: str.isdigit and int on a line typed by the         *)
(* operator.  "sup2" stands for the character U+00B2 (superscript two),    *)
(* for which str.isdigit() is True and int() raises ValueError.            *)
(***************************************************************************)
DecimalChars == {"0", "1"}

DigitChars == DecimalChars \cup {"sup2"}

ChoiceChars == DigitChars \cup {"-", "a"}

ChoiceLines == SeqsUpTo(ChoiceChars, MaxChoiceLen)

\* str.isdigit(): non-empty and every character is a digit character.
isdigit(s) == Len(s) > 0 /\ \A i \in 1..Len(s) : s[i] \in DigitChars

DigitValue(c) == IF c = "0" THEN 0 ELSE 1

\* int(s) raises ValueError unless s is a decimal literal.
IntRaises(s) == Len(s) = 0 \/ \E i \in 1..Len(s) : s[i] \notin DecimalChars

RECURSIVE int(_)
int(s) ==
    IF Len(s) = 0 THEN 0
    ELSE 10 * int(SubSeq(s, 1, Len(s) - 1)) + DigitValue(s[Len(s)])

(***************************************************************************)
(* The rewrite service: a chat completion returns a text (possibly empty)  *)
(* or the call fails.                                                      *)
(***************************************************************************)
AiResponses ==
    { [ok |-> TRUE, content |-> "Revised Text"],
      [ok |-> TRUE, content |-> ""],
      [ok |-> FALSE, content |-> ""] }

\* ai_revise without its except clause: a failed service call raises.
ai_revise_NoCatch(client, old_name, response) ==
    IF client = None \/ ~response.ok
    THEN [raised |-> TRUE, value |-> None, log |-> << >>]
    ELSE IF response.content # ""
    THEN [raised |-> FALSE, value |-> response.content, log |-> << >>]
    ELSE [raised |-> FALSE, value |-> old_name,
          log |-> << Warn("AI returned empty response", None, None) >>]

\* ai_revise(old_name, system_prompt) with the service's response: the value
\* returned, whether an exception leaves the call, and what is logged.
ai_revise(client, old_name, response) ==
    IF client = None
    THEN [raised |-> TRUE, value |-> None, log |-> << >>]
    ELSE IF ~response.ok
    THEN [raised |-> FALSE, value |-> old_name,
          log |-> << LogRec("error", "AI error", None, None) >>]
    ELSE IF response.content # ""
    THEN [raised |-> FALSE, value |-> response.content, log |-> << >>]
    ELSE [raised |-> FALSE, value |-> old_name,
          log |-> << Warn("AI returned empty response", None, None) >>]

\* The loop body skipping an absent field without a warning.
ConvertStep_Silent(st, key, entryKey, use_ai, client, venue, responses) ==
    IF st.raised THEN st
    ELSE IF ~HasField(st.entry_fields, key)
    THEN st
    ELSE LET i == FieldIndex(st.entry_fields, key)
             field == st.entry_fields[i]
         IN  IF use_ai /\ key \in {"title", venue}
             THEN LET r == ai_revise(client, field.value,
                                     responses[IF key = "title" THEN "title" ELSE "venue"])
                      call == [key |-> entryKey, field |-> key, text |-> field.value]
                  IN  IF r.raised
                      THEN [st EXCEPT !.raised = TRUE, !.calls = Append(@, call)]
                      ELSE [st EXCEPT
                              !.entry_fields[i].value = r.value,
                              !.fields = Append(@, Fld(key, r.value)),
                              !.log = @ \o r.log,
                              !.calls = Append(@, call)]
             ELSE [st EXCEPT !.fields = Append(@, field)]

\* The loop body rewriting every field that is present, not only the title
\* and the venue.
ConvertStep_RewriteAll(st, key, entryKey, use_ai, client, venue, responses) ==
    IF st.raised THEN st
    ELSE IF ~HasField(st.entry_fields, key)
    THEN [st EXCEPT !.log = Append(@, Warn("Missing field", entryKey, key))]
    ELSE LET i == FieldIndex(st.entry_fields, key)
             field == st.entry_fields[i]
         IN  IF use_ai
             THEN LET r == ai_revise(client, field.value,
                                     responses[IF key = "title" THEN "title" ELSE "venue"])
                      call == [key |-> entryKey, field |-> key, text |-> field.value]
                  IN  IF r.raised
                      THEN [st EXCEPT !.raised = TRUE, !.calls = Append(@, call)]
                      ELSE [st EXCEPT
                              !.entry_fields[i].value = r.value,
                              !.fields = Append(@, Fld(key, r.value)),
                              !.log = @ \o r.log,
                              !.calls = Append(@, call)]
             ELSE [st EXCEPT !.fields = Append(@, field)]

(***************************************************************************)
(* convert_article / convert_inproceedings.  The loop over the required    *)
(* keys is folded over a state st: the entry's field list (a rewritten     *)
(* value is assigned to the Field object, so it shows in the entry at      *)
(* once), the staged list `fields`, the log records and the rewrite calls  *)
(* made, and whether an exception left the loop.  responses gives the      *)
(* service's response to the title call and to the venue call.             *)
(***************************************************************************)
ConvertStep(st, key, entryKey, use_ai, client, venue, responses) ==
    IF st.raised THEN st
    ELSE IF ~HasField(st.entry_fields, key)
    THEN [st EXCEPT !.log = Append(@, Warn("Missing field", entryKey, key))]
    ELSE LET i == FieldIndex(st.entry_fields, key)
             field == st.entry_fields[i]
         IN  IF use_ai /\ key \in {"title", venue}
             THEN LET r == ai_revise(client, field.value,
                                     responses[IF key = "title" THEN "title" ELSE "venue"])
                      call == [key |-> entryKey, field |-> key, text |-> field.value]
                  IN  IF r.raised
                      THEN [st EXCEPT !.raised = TRUE, !.calls = Append(@, call)]
                      ELSE [st EXCEPT
                              !.entry_fields[i].value = r.value,
                              !.fields = Append(@, Fld(key, r.value)),
                              !.log = @ \o r.log,
                              !.calls = Append(@, call)]
             ELSE [st EXCEPT !.fields = Append(@, field)]

RECURSIVE ConvertLoop(_, _, _, _, _, _, _, _)
ConvertLoop(st, required, n, entryKey, use_ai, client, venue, responses) ==
    IF n > Len(required) THEN st
    ELSE ConvertLoop(ConvertStep(st, required[n], entryKey, use_ai, client, venue, responses),
                     required, n + 1, entryKey, use_ai, client, venue, responses)

\* convert_* that extends the entry's field list by the staged fields instead
\* of replacing it.
Convert_Extend(entry, required, venue, use_ai, client, responses) ==
    LET st0 == [entry_fields |-> entry.fields, fields |-> << >>, log |-> << >>,
                calls |-> << >>, raised |-> FALSE]
        st == ConvertLoop(st0, required, 1, entry.key, use_ai, client, venue, responses)
    IN  [entry |-> [entry EXCEPT !.fields = IF st.raised THEN st.entry_fields
                                            ELSE st.entry_fields \o st.fields],
         log |-> st.log, calls |-> st.calls, raised |-> st.raised]

\* convert_* with `break` for `continue`: the loop ends at the first absent key.
Convert_Break(entry, required, venue, use_ai, client, responses) ==
    LET absent == {n \in 1..Len(required) : ~HasField(entry.fields, required[n])}
        first == CHOOSE n \in absent : \A m \in absent : n <= m
        examined == IF absent = {} THEN required ELSE SubSeq(required, 1, first)
        st0 == [entry_fields |-> entry.fields, fields |-> << >>, log |-> << >>,
                calls |-> << >>, raised |-> FALSE]
        st == ConvertLoop(st0, examined, 1, entry.key, use_ai, client, venue, responses)
    IN  [entry |-> [entry EXCEPT !.fields = IF st.raised THEN st.entry_fields ELSE st.fields],
         log |-> st.log, calls |-> st.calls, raised |-> st.raised]

\* convert_* without the final `entry.fields = fields`.
Convert_NoWriteBack(entry, required, venue, use_ai, client, responses) ==
    LET st0 == [entry_fields |-> entry.fields, fields |-> << >>, log |-> << >>,
                calls |-> << >>, raised |-> FALSE]
        st == ConvertLoop(st0, required, 1, entry.key, use_ai, client, venue, responses)
    IN  [entry |-> [entry EXCEPT !.fields = st.entry_fields],
         log |-> st.log, calls |-> st.calls, raised |-> st.raised]

\* The result of a convert_* call: the entry afterwards, the log records and
\* rewrite calls it made, and whether an exception left it.
Convert(entry, required, venue, use_ai, client, responses) ==
    LET st0 == [entry_fields |-> entry.fields, fields |-> << >>, log |-> << >>,
                calls |-> << >>, raised |-> FALSE]
        st == ConvertLoop(st0, required, 1, entry.key, use_ai, client, venue, responses)
    IN  [entry |-> [entry EXCEPT !.fields = IF st.raised THEN st.entry_fields ELSE st.fields],
         log |-> st.log, calls |-> st.calls, raised |-> st.raised]

convert_article(entry, use_ai, client, responses) ==
    Convert(entry, ArticleRequired, "journal", use_ai, client, responses)

convert_inproceedings(entry, use_ai, client, responses) ==
    Convert(entry, InproceedingsRequired, "booktitle", use_ai, client, responses)


(***************************************************************************)
(* check_dblp's pieces.                                                    *)
(***************************************************************************)
\* bib_convert without the test of the entry type before check_dblp.
DblpApplies_AnyType(dblp, entry) == dblp

\* bib_convert lines 286-290: the entry goes through check_dblp.
DblpApplies(dblp, entry) == dblp /\ entry.entry_type \in KnownTypes

\* check_dblp line 133: the guard that lets the search run.
TitlePresent(entry) == HasField(entry.fields, "title")

\* check_dblp line 156: the answer is accepted.
ChoiceAccepted(line, n) == isdigit(line) /\ 0 <= int(line) /\ int(line) < n

\* check_dblp handing hits[0] to replace_entry whatever the answer.
ChosenHit_First(line) == 1

\* check_dblp line 157: the hit handed to replace_entry.
ChosenHit(line) == int(line) + 1

\* replace_entry that also takes the key of the downloaded entry.
replace_entry_TakeKey(entry, payload) ==
    IF Len(payload) # 1
    THEN [entry |-> entry,
          log |-> << Warn("Failed to parse bibtex from DBLP", entry.key, None) >>]
    ELSE [entry |-> payload[1], log |-> << >>]

\* replace_entry that fails only on an empty payload and takes the first
\* record of a longer one.
replace_entry_TakeFirst(entry, payload) ==
    IF Len(payload) = 0
    THEN [entry |-> entry,
          log |-> << Warn("Failed to parse bibtex from DBLP", entry.key, None) >>]
    ELSE [entry |-> [entry EXCEPT !.fields = payload[1].fields,
                                  !.entry_type = payload[1].entry_type],
          log |-> << >>]

\* replace_entry without the assignment of entry_type.
replace_entry_KeepType(entry, payload) ==
    IF Len(payload) # 1
    THEN [entry |-> entry,
          log |-> << Warn("Failed to parse bibtex from DBLP", entry.key, None) >>]
    ELSE [entry |-> [entry EXCEPT !.fields = payload[1].fields],
          log |-> << >>]

\* replace_entry lines 125-131 on the parsed payload: the entry afterwards and
\* the warning logged, if any.
replace_entry(entry, payload) ==
    IF Len(payload) # 1
    THEN [entry |-> entry,
          log |-> << Warn("Failed to parse bibtex from DBLP", entry.key, None) >>]
    ELSE [entry |-> [entry EXCEPT !.fields = payload[1].fields,
                                  !.entry_type = payload[1].entry_type],
          log |-> << >>]

(***************************************************************************)
(* State.                                                                  *)
(***************************************************************************)
VARIABLES
    args,            \* parse_args(): ai, ai_key, dblp, suppress_type
    use_ai,          \* BibConverter.use_ai
    ai_client,       \* BibConverter.ai_client
    use_dblp,        \* BibConverter.use_dblp
    suppress_type,   \* BibConverter.suppress_type
    pc,              \* where the run is
    parsed,          \* library.entries as parse_string returned them
    entries,         \* library.entries, mutated in place
    idx,             \* position of the for loop of bib_convert
    hits,            \* check_dblp: the search result
    chosen,          \* check_dblp: position in hits of the hit being fetched
    prompts,         \* check_dblp: answers refused so far by the prompt loop
    log,             \* the records written to bib-check.log
    status,          \* per entry: "pending", "done" (try block ended), "failed" (except block ran)
    searchCalls,     \* calls of DblpSearch.search
    fetchCalls,      \* calls of requests.get in replace_entry
    aiCalls,         \* calls of chat.completions.create
    writes,          \* calls of bibtexparser.write_file
    ret              \* outcome of the last direct call of ai_revise

vars == << args, use_ai, ai_client, use_dblp, suppress_type, pc, parsed, entries, idx,
           hits, chosen, prompts, log, status, searchCalls, fetchCalls, aiCalls, writes, ret >>

converter == << use_ai, ai_client, use_dblp, suppress_type >>

locals == << hits, chosen, prompts >>

calls == << searchCalls, fetchCalls, aiCalls, writes >>

NoRet ==
    [called |-> FALSE, raised |-> FALSE, value |-> None, old_name |-> None,
     response |-> [ok |-> TRUE, content |-> ""], logged |-> << >>]

Init ==
    /\ args \in [ai : BOOLEAN, ai_key : {None, "key"}, dblp : BOOLEAN,
                 suppress_type : BOOLEAN]
    /\ use_ai = FALSE
    /\ ai_client = None
    /\ use_dblp = FALSE
    /\ suppress_type = FALSE
    /\ pc = "main"
    /\ parsed = << >>
    /\ entries = << >>
    /\ idx = 0
    /\ hits = << >>
    /\ chosen = 0
    /\ prompts = 0
    /\ log = << >>
    /\ status = << >>
    /\ searchCalls = << >>
    /\ fetchCalls = << >>
    /\ aiCalls = << >>
    /\ writes = << >>
    /\ ret = NoRet

(***************************************************************************)
(* main lines 326-333 with BibConverter.__init__: --ai without a key       *)
(* raises ValueError, which ends the run.                                  *)
(***************************************************************************)
Construct ==
    /\ pc = "main"
    /\ IF args.ai /\ args.ai_key = None
       THEN /\ pc' = "fatal"
            /\ UNCHANGED converter
       ELSE /\ use_ai' = args.ai
            /\ ai_client' = IF args.ai THEN "client" ELSE None
            /\ use_dblp' = args.dblp
            /\ suppress_type' = args.suppress_type
            /\ pc' = "read"
    /\ UNCHANGED << args, parsed, entries, idx, locals, log, status, calls, ret >>

(***************************************************************************)
(* main lines 334-336 and bib_convert line 279: the input file is read and *)
(* parsed (or cannot be opened), and the for loop starts.                  *)
(***************************************************************************)
ReadInput ==
    /\ pc = "read"
    /\ \/ /\ pc' = "fatal"
          /\ UNCHANGED << parsed, entries, idx, status >>
       \/ \E lib \in Libraries :
            /\ parsed' = lib
            /\ entries' = lib
            /\ status' = [i \in 1..Len(lib) |-> "pending"]
            /\ idx' = 1
            /\ pc' = IF Len(lib) = 0 THEN "done" ELSE "entry"
    /\ UNCHANGED << args, converter, locals, log, calls, ret >>

\* An except block after which the dispatch of lines 293-303 still runs.
Except_ThenConvert ==
    /\ log' = Append(log, Warn("Failed to convert entry", entries[idx].key, None))
    /\ status' = [status EXCEPT ![idx] = "failed"]
    /\ pc' = "dispatch"

\* bib_convert without the try/except: the exception ends the run.
Except_Propagates ==
    /\ pc' = "fatal"
    /\ status' = [status EXCEPT ![idx] = "failed"]
    /\ UNCHANGED log

\* bib_convert lines 304-305: the except block of the current entry.
Except ==
    /\ log' = Append(log, Warn("Failed to convert entry", entries[idx].key, None))
    /\ status' = [status EXCEPT ![idx] = "failed"]
    /\ pc' = "write"

(***************************************************************************)
(* check_dblp lines 133-135: no title, no search.                          *)
(***************************************************************************)
CheckDblpMissingTitle ==
    /\ pc = "entry"
    /\ DblpApplies(use_dblp, entries[idx])
    /\ ~TitlePresent(entries[idx])
    /\ log' = Append(log, Warn("Missing title in entry", entries[idx].key, None))
    /\ pc' = "dispatch"
    /\ UNCHANGED << args, converter, parsed, entries, idx, locals, status, calls, ret >>

(***************************************************************************)
(* check_dblp lines 136-146: the search and the branch on its result.      *)
(***************************************************************************)
CheckDblpSearch ==
    /\ pc = "entry"
    /\ DblpApplies(use_dblp, entries[idx])
    /\ TitlePresent(entries[idx])
    /\ searchCalls' = Append(searchCalls,
                             [key |-> entries[idx].key,
                              query |-> FieldValue(entries[idx].fields, "title")])
    /\ \/ /\ Except
          /\ UNCHANGED locals
       \/ \E result \in SearchResults :
            IF Len(result) = 0
            THEN /\ log' = Append(log, Warn("No hits in DBLP", entries[idx].key, None))
                 /\ pc' = "dispatch"
                 /\ UNCHANGED << locals, status >>
            ELSE /\ hits' = result
                 /\ chosen' = IF Len(result) = 1 THEN 1 ELSE 0
                 /\ pc' = IF Len(result) = 1 THEN "fetch" ELSE "prompt"
                 /\ UNCHANGED << prompts, log, status >>
    /\ UNCHANGED << args, converter, parsed, entries, idx, fetchCalls, aiCalls, writes, ret >>

\* A prompt loop that searches again after an answer it refuses.
PromptLine_SearchAgain(line) ==
    /\ pc = "prompt"
    /\ IF isdigit(line) /\ IntRaises(line)
       THEN /\ Except
            /\ hits' = << >>
            /\ prompts' = 0
            /\ UNCHANGED << chosen, searchCalls >>
       ELSE IF ChoiceAccepted(line, Len(hits))
       THEN /\ chosen' = ChosenHit(line)
            /\ pc' = "fetch"
            /\ UNCHANGED << hits, prompts, log, status, searchCalls >>
       ELSE /\ prompts < MaxPrompts
            /\ prompts' = prompts + 1
            /\ searchCalls' = Append(searchCalls,
                                     [key |-> entries[idx].key,
                                      query |-> FieldValue(entries[idx].fields, "title")])
            /\ UNCHANGED << pc, hits, chosen, log, status >>
    /\ UNCHANGED << args, converter, parsed, entries, idx, fetchCalls, aiCalls, writes, ret >>

(***************************************************************************)
(* check_dblp lines 147-160: one round of the prompt loop with the line    *)
(* the operator typed.                                                     *)
(***************************************************************************)
PromptLine(line) ==
    /\ pc = "prompt"
    /\ IF isdigit(line) /\ IntRaises(line)
       THEN /\ Except
            /\ hits' = << >>
            /\ prompts' = 0
            /\ UNCHANGED chosen
       ELSE IF ChoiceAccepted(line, Len(hits))
       THEN /\ chosen' = ChosenHit(line)
            /\ pc' = "fetch"
            /\ UNCHANGED << hits, prompts, log, status >>
       ELSE /\ prompts < MaxPrompts
            /\ prompts' = prompts + 1
            /\ UNCHANGED << pc, hits, chosen, log, status >>
    /\ UNCHANGED << args, converter, parsed, entries, idx, calls, ret >>

Prompt == \E line \in ChoiceLines : PromptLine(line)

\* input() raises EOFError: standard input is closed.
PromptEOF ==
    /\ pc = "prompt"
    /\ Except
    /\ hits' = << >>
    /\ prompts' = 0
    /\ UNCHANGED << args, converter, parsed, entries, idx, chosen, calls, ret >>

(***************************************************************************)
(* replace_entry lines 124-131: the fetch of the chosen hit's bibtex.      *)
(***************************************************************************)
ReplaceEntry ==
    /\ pc = "fetch"
    /\ fetchCalls' = Append(fetchCalls, [key |-> entries[idx].key, url |-> hits[chosen]])
    /\ hits' = << >>
    /\ UNCHANGED << chosen, prompts >>
    /\ \/ /\ Except
          /\ UNCHANGED entries
       \/ LET r == replace_entry(entries[idx], DblpPayload(hits[chosen]))
          IN  /\ entries' = [entries EXCEPT ![idx] = r.entry]
              /\ log' = log \o r.log
              /\ pc' = "dispatch"
              /\ UNCHANGED status
    /\ UNCHANGED << args, converter, parsed, idx, searchCalls, aiCalls, writes, ret >>

(***************************************************************************)
(* bib_convert lines 293-303: the dispatch on the entry type.              *)
(***************************************************************************)
ResponseChoices == [{"title", "venue"} -> AiResponses]

\* The dispatch without the test of suppress_type at line 298.
Dispatch_IgnoresSuppress ==
    /\ \/ pc = "dispatch"
       \/ pc = "entry" /\ ~DblpApplies(use_dblp, entries[idx])
    /\ LET entry == entries[idx]
       IN  IF entry.entry_type \in KnownTypes
           THEN \E responses \in ResponseChoices :
                  LET r == IF entry.entry_type = "article"
                           THEN convert_article(entry, use_ai, ai_client, responses)
                           ELSE convert_inproceedings(entry, use_ai, ai_client, responses)
                  IN  /\ entries' = [entries EXCEPT ![idx] = r.entry]
                      /\ aiCalls' = aiCalls \o r.calls
                      /\ log' = IF r.raised
                                THEN Append(log \o r.log,
                                            Warn("Failed to convert entry", entry.key, None))
                                ELSE log \o r.log
                      /\ status' = [status EXCEPT ![idx] = IF r.raised THEN "failed" ELSE "done"]
           ELSE /\ log' = Append(log, Warn("Manually check bibentry of type",
                                           entry.key, entry.entry_type))
                /\ status' = [status EXCEPT ![idx] = "done"]
                /\ UNCHANGED << entries, aiCalls >>
    /\ pc' = "write"
    /\ hits' = << >>
    /\ chosen' = 0
    /\ prompts' = 0
    /\ UNCHANGED << args, converter, parsed, idx, searchCalls, fetchCalls, writes, ret >>

Dispatch ==
    /\ \/ pc = "dispatch"
       \/ pc = "entry" /\ ~DblpApplies(use_dblp, entries[idx])
    /\ LET entry == entries[idx]
       IN  IF entry.entry_type \in KnownTypes
           THEN \E responses \in ResponseChoices :
                  LET r == IF entry.entry_type = "article"
                           THEN convert_article(entry, use_ai, ai_client, responses)
                           ELSE convert_inproceedings(entry, use_ai, ai_client, responses)
                  IN  /\ entries' = [entries EXCEPT ![idx] = r.entry]
                      /\ aiCalls' = aiCalls \o r.calls
                      /\ log' = IF r.raised
                                THEN Append(log \o r.log,
                                            Warn("Failed to convert entry", entry.key, None))
                                ELSE log \o r.log
                      /\ status' = [status EXCEPT ![idx] = IF r.raised THEN "failed" ELSE "done"]
           ELSE /\ log' = IF suppress_type THEN log
                          ELSE Append(log, Warn("Manually check bibentry of type",
                                                entry.key, entry.entry_type))
                /\ status' = [status EXCEPT ![idx] = "done"]
                /\ UNCHANGED << entries, aiCalls >>
    /\ pc' = "write"
    /\ hits' = << >>
    /\ chosen' = 0
    /\ prompts' = 0
    /\ UNCHANGED << args, converter, parsed, idx, searchCalls, fetchCalls, writes, ret >>

(***************************************************************************)
(* bib_convert line 306: write_file, in the body of the for loop; an       *)
(* exception from it is outside the try block and ends the run.            *)
(***************************************************************************)
WriteFile ==
    /\ pc = "write"
    /\ writes' = Append(writes, [at |-> idx, keys |-> [i \in 1..Len(entries) |-> entries[i].key]])
    /\ \/ /\ idx' = idx + 1
          /\ pc' = IF idx + 1 > Len(entries) THEN "done" ELSE "entry"
       \/ /\ pc' = "fatal"
          /\ UNCHANGED idx
    /\ hits' = << >>
    /\ chosen' = 0
    /\ prompts' = 0
    /\ UNCHANGED << args, converter, parsed, entries, log, status, searchCalls, fetchCalls,
                    aiCalls, ret >>

Next ==
    \/ Construct
    \/ ReadInput
    \/ CheckDblpMissingTitle
    \/ CheckDblpSearch
    \/ Prompt
    \/ PromptEOF
    \/ ReplaceEntry
    \/ Dispatch
    \/ WriteFile

Spec == Init /\ [][Next]_vars

(***************************************************************************)
(* ai_revise called on a constructed converter (as ai_revise_title,        *)
(* ai_revise_journal and ai_revise_inproceedings call it), with every text,*)
(* prompt and service response.  InitRevise is a converter as __init__     *)
(* leaves it: the client exists exactly when use_ai is set.                *)
(***************************************************************************)
Texts == {"hello world", "foo"}

SystemPrompts == {"title", "journal", "inproceedings"}

InitRevise ==
    /\ use_ai \in BOOLEAN
    /\ ai_client = IF use_ai THEN "client" ELSE None
    /\ use_dblp \in BOOLEAN
    /\ suppress_type \in BOOLEAN
    /\ args = [ai |-> use_ai, ai_key |-> IF use_ai THEN "key" ELSE None,
               dblp |-> use_dblp, suppress_type |-> suppress_type]
    /\ pc = "api"
    /\ parsed = << >>
    /\ entries = << >>
    /\ idx = 0
    /\ hits = << >>
    /\ chosen = 0
    /\ prompts = 0
    /\ log = << >>
    /\ status = << >>
    /\ searchCalls = << >>
    /\ fetchCalls = << >>
    /\ aiCalls = << >>
    /\ writes = << >>
    /\ ret = NoRet

ReviseCall ==
    /\ pc = "api"
    /\ Len(aiCalls) < MaxCalls
    /\ \E old_name \in Texts, system_prompt \in SystemPrompts, response \in AiResponses :
         LET r == ai_revise(ai_client, old_name, response)
         IN  /\ ret' = [called |-> TRUE, raised |-> r.raised, value |-> r.value,
                        old_name |-> old_name, response |-> response, logged |-> r.log]
             /\ log' = log \o r.log
             /\ aiCalls' = Append(aiCalls, [key |-> None, field |-> system_prompt,
                                            text |-> old_name])
    /\ UNCHANGED << args, converter, pc, parsed, entries, idx, locals, status, searchCalls,
                    fetchCalls, writes >>

NextRevise == ReviseCall

SpecRevise == InitRevise /\ [][NextRevise]_vars

(***************************************************************************)
(* Normalization alone: the dispatch of bib_convert (lines 293-303) on a   *)
(* converter with index lookup and rewriting disabled, applied to one      *)
(* record and then again to the record it left.  The record is of every    *)
(* kind and has every subset of the profile fields and one other field, in *)
(* two orders.                                                             *)
(***************************************************************************)
NormalizeKinds == {"article", "inproceedings", "book"}

NormalizeKeys == << "title", "author", "journal", "booktitle", "year", "pages", "note" >>

Reversed(s) == [i \in 1..Len(s) |-> s[Len(s) + 1 - i]]

FieldText(k) == "text of " \o k

FieldsIn(present, order) ==
    LET keys == SelectSeq(order, LAMBDA k : k \in present)
    IN  [i \in 1..Len(keys) |-> Fld(keys[i], FieldText(keys[i]))]

NormalizeInputs ==
    { Entry(EntryKey(1), t, FieldsIn(present, order)) :
        t \in NormalizeKinds,
        present \in SUBSET Range(NormalizeKeys),
        order \in {NormalizeKeys, Reversed(NormalizeKeys)} }

InitNormalize ==
    /\ use_ai = FALSE
    /\ ai_client = None
    /\ use_dblp = FALSE
    /\ suppress_type \in BOOLEAN
    /\ args = [ai |-> FALSE, ai_key |-> None, dblp |-> FALSE,
               suppress_type |-> suppress_type]
    /\ pc = "entry"
    /\ \E entry \in NormalizeInputs :
         /\ parsed = << entry >>
         /\ entries = << entry >>
    /\ idx = 1
    /\ hits = << >>
    /\ chosen = 0
    /\ prompts = 0
    /\ log = << >>
    /\ status = << "pending" >>
    /\ searchCalls = << >>
    /\ fetchCalls = << >>
    /\ aiCalls = << >>
    /\ writes = << >>
    /\ ret = NoRet

\* The record that normalization left is handed to normalization again;
\* parsed keeps the record as it was handed over.
NormalizeAgain ==
    /\ pc = "write"
    /\ Len(log) < MaxLog
    /\ parsed' = entries
    /\ pc' = "entry"
    /\ UNCHANGED << args, converter, entries, idx, locals, log, status, calls, ret >>

NextNormalize ==
    \/ Dispatch
    \/ NormalizeAgain

SpecNormalize == InitNormalize /\ [][NextNormalize]_vars



(***************************************************************************)
(* Helpers of the properties.                                              *)
(***************************************************************************)
\* The log records with message msg that name entry key k.
LogOf(msg, k) == SelectSeq(log, LAMBDA r : r.msg = msg /\ r.key = k)

Known(entry) == entry.entry_type \in KnownTypes

\* A step in which the except block of bib_convert ran for the current entry.
FaultStep == pc \in {"entry", "prompt", "fetch", "dispatch"} /\ status'[idx] = "failed"

(***************************************************************************)
(* C1.  Per-record fault isolation: when a sub-step of the current entry   *)
(* raises, the exception is caught: exactly one warning naming the entry's *)
(* key is appended to the log, the entry keeps the type and fields it had  *)
(* at the fault, and the run goes on to the rest of the loop body for that *)
(* entry instead of ending; a failed entry is never touched again, has     *)
(* exactly one such warning in the log, and when the loop ends every entry *)
(* has been processed, the ones after a failed entry included.             *)
(***************************************************************************)
C1_FaultIsolation ==
    /\ [][FaultStep =>
            /\ log' = Append(log, Warn("Failed to convert entry", entries[idx].key, None))
            /\ entries' = entries
            /\ idx' = idx
            /\ pc' = "write"]_vars
    /\ [][\A j \in 1..Len(status) :
            status[j] = "failed" => entries'[j] = entries[j] /\ status'[j] = "failed"]_vars
    /\ [](\A j \in 1..Len(status) :
            Len(LogOf("Failed to convert entry", entries[j].key))
              = IF status[j] = "failed" THEN 1 ELSE 0)
    /\ [](pc = "done" => \A j \in 1..Len(status) : status[j] # "pending")

\* The first entry failed and the loop went on to process the second.
C1_Witness ==
    /\ pc = "done"
    /\ Len(entries) = 2
    /\ status[1] = "failed"
    /\ status[2] = "done"
    /\ Len(LogOf("Failed to convert entry", entries[1].key)) = 1

(***************************************************************************)
(* C2.  The serializer is invoked exactly once per run of bib_convert, the *)
(* empty batch included, and only after every entry has been processed.    *)
(***************************************************************************)
C2_WriteOncePerBatch ==
    /\ pc = "done" => Len(writes) = 1
    /\ \A w \in 1..Len(writes) : writes[w].at = Len(entries)


(***************************************************************************)
(* More helpers: the required keys an entry lacks and has, in profile      *)
(* order, and the log records a step appends.                              *)
(***************************************************************************)
MissingOf(entry) ==
    SelectSeq(Required(entry.entry_type), LAMBDA k : ~HasField(entry.fields, k))

PresentOf(entry) ==
    SelectSeq(Required(entry.entry_type), LAMBDA k : HasField(entry.fields, k))

Venue(entry) == IF entry.entry_type = "article" THEN "journal" ELSE "booktitle"

Appended == SubSeq(log', Len(log) + 1, Len(log'))

\* A step in which convert_article / convert_inproceedings ran to its end.
NormalizeStep ==
    /\ pc \in {"entry", "dispatch"}
    /\ pc' = "write"
    /\ status'[idx] = "done"
    /\ Known(entries[idx])

CallsOf(callSeq, k) == SelectSeq(callSeq, LAMBDA c : c.key = k)

C4_SchemaReduction ==
    \A j \in 1..Len(entries) :
        ( /\ ~use_dblp
          /\ ~use_ai
          /\ status[j] = "done"
          /\ Known(parsed[j])
          /\ MissingOf(parsed[j]) = << >> )
        => LET required == Required(parsed[j].entry_type)
           IN  /\ entries[j].fields
                    = [i \in 1..Len(required) |->
                         Fld(required[i], FieldValue(parsed[j].fields, required[i]))]
               /\ entries[j].entry_type = parsed[j].entry_type
               /\ entries[j].key = parsed[j].key

\* A complete entry with an extra field first and the profile out of order
\* was reduced.
C4_Witness ==
    \E j \in 1..Len(entries) :
        /\ ~use_dblp
        /\ ~use_ai
        /\ status[j] = "done"
        /\ parsed[j].entry_type = "inproceedings"
        /\ MissingOf(parsed[j]) = << >>
        /\ parsed[j].fields[1].key = "pages"
        /\ HasField(parsed[j].fields, "note")
        /\ FieldKeys(entries[j].fields) = InproceedingsRequired

(***************************************************************************)
(* C5.  Pass-through: an entry whose input type is neither article nor     *)
(* inproceedings keeps, in every state of the run and under every setting  *)
(* of the options, the type and fields parsed from the input, and neither  *)
(* the index (search, fetch) nor the rewrite service is called for it.     *)
(***************************************************************************)
C5_PassThrough ==
    \A j \in 1..Len(entries) :
        ~Known(parsed[j]) =>
            /\ entries[j] = parsed[j]
            /\ CallsOf(searchCalls, parsed[j].key) = << >>
            /\ CallsOf(fetchCalls, parsed[j].key) = << >>
            /\ CallsOf(aiCalls, parsed[j].key) = << >>

\* A book was processed with index lookup and rewriting both enabled, next
\* to an entry for which both services were called.
C5_Witness ==
    /\ pc = "done"
    /\ use_dblp
    /\ use_ai
    /\ Len(entries) = 2
    /\ ~Known(parsed[1])
    /\ status[1] = "done"
    /\ CallsOf(searchCalls, parsed[2].key) # << >>
    /\ CallsOf(aiCalls, parsed[2].key) # << >>

(***************************************************************************)
(* C6.  The resolver by candidate count, for an entry with a title: with   *)
(* no candidate the entry is unchanged and exactly one warning is logged;  *)
(* with one candidate it is the one fetched, and a fetch that succeeds     *)
(* replaces the entry's type and whole field list by the fetched record's; *)
(* with several candidates an answer that denotes i in [0, N-1] makes      *)
(* candidate i, and no other, the one fetched.                             *)
(***************************************************************************)
DenotesIndex(line, n) ==
    /\ Len(line) > 0
    /\ \A i \in 1..Len(line) : line[i] \in DecimalChars
    /\ int(line) < n

SearchReturned == pc = "entry" /\ Len(searchCalls') = Len(searchCalls) + 1 /\ pc' # "write"

C6_ResolverByCandidateCount ==
    /\ [][(SearchReturned /\ pc' = "dispatch") =>
            /\ entries' = entries
            /\ log' = Append(log, Warn("No hits in DBLP", entries[idx].key, None))
            /\ fetchCalls' = fetchCalls]_vars
    /\ [][(SearchReturned /\ pc' = "fetch") => Len(hits') = 1 /\ chosen' = 1]_vars
    /\ [][(SearchReturned /\ pc' = "prompt") => Len(hits') > 1]_vars
    /\ [][pc = "prompt" =>
            \A line \in ChoiceLines :
              (DenotesIndex(line, Len(hits)) /\ PromptLine(line)) =>
                  pc' = "fetch" /\ hits' = hits /\ chosen' = int(line) + 1]_vars
    /\ [][(pc = "fetch" /\ pc' = "dispatch" /\ Len(DblpPayload(hits[chosen])) = 1) =>
            LET fetched == DblpPayload(hits[chosen])[1]
            IN  /\ fetchCalls' = Append(fetchCalls,
                                        [key |-> entries[idx].key, url |-> hits[chosen]])
                /\ entries' = [entries EXCEPT
                                 ![idx] = Entry(entries[idx].key, fetched.entry_type,
                                                fetched.fields)]
                /\ log' = log]_vars

\* The operator chose the second of two different candidates, and the entry
\* now is the record behind the second one.
C6_Witness ==
    /\ pc = "dispatch"
    /\ chosen = 2
    /\ fetchCalls[Len(fetchCalls)] = [key |-> entries[idx].key, url |-> "u2"]
    /\ parsed[idx].entry_type = "article"
    /\ entries[idx].entry_type = "phdthesis"
    /\ entries[idx].fields = DblpThesis.fields

(***************************************************************************)
(* C7.  The prompt loop: every answer that does not denote an integer in   *)
(* [0, count-1] leaves the entry and all other state as they were and the  *)
(* prompt is presented again; no such answer ends the processing of the    *)
(* entry.                                                                  *)
(***************************************************************************)
C7_InvalidAnswerReprompts ==
    [][pc = "prompt" =>
         \A line \in ChoiceLines :
           (~DenotesIndex(line, Len(hits)) /\ PromptLine(line)) =>
             /\ pc' = "prompt"
             /\ hits' = hits
             /\ entries' = entries
             /\ log' = log
             /\ status' = status]_vars

(***************************************************************************)
(* C8.  The resolver's precondition: for an article or inproceedings entry *)
(* whose title is absent or empty the index search is never invoked, and   *)
(* once index lookup has handled the entry one warning names its key and   *)
(* the entry is as parsed when normalization starts.                       *)
(***************************************************************************)
C8_NoSearchWithoutTitle ==
    \A j \in 1..Len(entries) :
        ( /\ use_dblp
          /\ Known(parsed[j])
          /\ \/ ~HasField(parsed[j].fields, "title")
             \/ FieldValue(parsed[j].fields, "title") = "" )
        => /\ CallsOf(searchCalls, parsed[j].key) = << >>
           /\ (j < idx \/ (j = idx /\ pc \in {"dispatch", "write"}))
                => Len(LogOf("Missing title in entry", parsed[j].key)) = 1
           /\ (j = idx /\ pc = "dispatch") => entries[j] = parsed[j]

(***************************************************************************)
(* C9 as claimed.  No exception leaves a call of ai_revise, in any state   *)
(* of the converter.                                                       *)
(***************************************************************************)
C9_NeverRaises == ret.called => ~ret.raised

(***************************************************************************)
(* C9 as amended.  For every call of ai_revise on a converter whose        *)
(* rewrite client is initialized (rewriting enabled), the call returns a   *)
(* string and no exception leaves it: the service's text when it is not    *)
(* empty, with nothing logged; the text passed in, with one warning        *)
(* logged, when the response is empty; the text passed in, with one error  *)
(* logged, when the service call fails.                                    *)
(***************************************************************************)
C9_ReviseReturnsText ==
    (ret.called /\ ai_client # None) =>
        /\ ~ret.raised
        /\ ret.value # None
        /\ SubSeq(log, Len(log) - Len(ret.logged) + 1, Len(log)) = ret.logged
        /\ IF ~ret.response.ok
           THEN /\ ret.value = ret.old_name
                /\ Len(ret.logged) = 1
                /\ ret.logged[1].level = "error"
           ELSE IF ret.response.content = ""
           THEN /\ ret.value = ret.old_name
                /\ Len(ret.logged) = 1
                /\ ret.logged[1].level = "warning"
           ELSE /\ ret.value = ret.response.content
                /\ ret.logged = << >>

\* The service call failed twice: the text came back unchanged and two
\* errors are in the log.
C9_Witness ==
    /\ ret.called
    /\ ai_client # None
    /\ ~ret.response.ok
    /\ ret.value = ret.old_name
    /\ Len(log) = 2
    /\ log[1].level = "error"

(***************************************************************************)
(* C10.  Substitution precedes normalization: when the fetch for an entry  *)
(* succeeded, the dispatch, the required-field check and the rewriting     *)
(* were done on the fetched type and fields: the entry ends with the       *)
(* fetched type; for a recognised fetched type its fields are the profile  *)
(* fields the fetched record has, in profile order, with the fetched       *)
(* values (but for a rewritten title or venue), the missing-field warnings *)
(* are those of the fetched record and the texts sent to the rewrite       *)
(* service are the fetched values; for an unrecognised fetched type the    *)
(* fields are the fetched fields, untouched.                               *)
(***************************************************************************)
C10_NormalizesSubstituted ==
    \A j \in 1..Len(entries) :
        \A c \in Range(CallsOf(fetchCalls, entries[j].key)) :
            (status[j] = "done" /\ Len(DblpPayload(c.url)) = 1) =>
                LET fetched == DblpPayload(c.url)[1]
                    entry == entries[j]
                    missing == MissingOf(fetched)
                IN  /\ entry.entry_type = fetched.entry_type
                    /\ IF Known(fetched)
                       THEN /\ FieldKeys(entry.fields) = PresentOf(fetched)
                            /\ \A i \in 1..Len(entry.fields) :
                                 \/ use_ai /\ entry.fields[i].key \in {"title", Venue(fetched)}
                                 \/ entry.fields[i].value
                                      = FieldValue(fetched.fields, entry.fields[i].key)
                            /\ LogOf("Missing field", entry.key)
                                 = [i \in 1..Len(missing) |->
                                      Warn("Missing field", entry.key, missing[i])]
                            /\ \A a \in Range(CallsOf(aiCalls, entry.key)) :
                                 a.text = FieldValue(fetched.fields, a.field)
                       ELSE /\ entry.fields = fetched.fields
                            /\ CallsOf(aiCalls, entry.key) = << >>
                            /\ LogOf("Missing field", entry.key) = << >>

\* An inproceedings entry was replaced by a fetched article and then reduced
\* to the article profile, with no warning about a field the article has.
C10_Witness ==
    \E j \in 1..Len(entries) :
        /\ status[j] = "done"
        /\ parsed[j].entry_type = "inproceedings"
        /\ entries[j].entry_type = "article"
        /\ use_ai
        /\ Len(CallsOf(aiCalls, entries[j].key)) = 2
        /\ FieldKeys(entries[j].fields) = ArticleRequired
        /\ LogOf("Missing field", entries[j].key) = << >>

(***************************************************************************)
(* C11 as claimed.  Every processed entry whose type, after a possible     *)
(* substitution, is neither article nor inproceedings has exactly one      *)
(* warning naming its type and key in the log, under every setting of the  *)
(* options.                                                                *)
(***************************************************************************)
C11_AlwaysOneTypeWarning ==
    \A j \in 1..Len(entries) :
        (status[j] = "done" /\ ~Known(entries[j])) =>
            LogOf("Manually check bibentry of type", entries[j].key)
              = << Warn("Manually check bibentry of type", entries[j].key,
                        entries[j].entry_type) >>

(***************************************************************************)
(* C11 as amended.  For an entry whose type, after a possible              *)
(* substitution, is neither article nor inproceedings: when the entry is   *)
(* processed and --suppress-type is not set, exactly one warning naming    *)
(* that type and the entry's key is logged; when --suppress-type is set,   *)
(* no such warning is logged.  No such warning is ever logged for an entry *)
(* that is not yet processed, whose processing failed, or whose type is    *)
(* article or inproceedings.                                               *)
(***************************************************************************)
C11_TypeWarningUnlessSuppressed ==
    \A j \in 1..Len(entries) :
        LogOf("Manually check bibentry of type", entries[j].key)
          = IF status[j] = "done" /\ ~Known(entries[j]) /\ ~suppress_type
            THEN << Warn("Manually check bibentry of type", entries[j].key,
                         entries[j].entry_type) >>
            ELSE << >>

\* With --suppress-type set, a book and an article that the index replaced
\* by a thesis were both processed, and the log has no warning about a type.
C11_Witness ==
    /\ pc = "done"
    /\ suppress_type
    /\ Len(entries) = 2
    /\ parsed[1].entry_type = "book"
    /\ parsed[2].entry_type = "article"
    /\ entries[2].entry_type = "phdthesis"
    /\ status = << "done", "done" >>
    /\ \A i \in 1..Len(log) : log[i].msg # "Manually check bibentry of type"

(***************************************************************************)
(* C12.  A run ends abnormally only before any entry has been processed:   *)
(* once the first entry has started, the run does not end before every     *)
(* entry has been processed.                                               *)
(***************************************************************************)
C12_FatalOnlyBeforeProcessing ==
    pc = "fatal" => (writes = << >> /\ \A j \in 1..Len(status) : status[j] = "pending")

(***************************************************************************)
(* C13.  A fetch failure is a value, not an exception.  When the fetch for *)
(* an entry returned a payload that parses into zero or several records,   *)
(* after one candidate as after several: the resolver leaves the entry as  *)
(* parsed, the log has exactly one warning about the payload naming the    *)
(* entry's key and no warning of the except block for it, the prompt loop  *)
(* is over (no second prompt, no second fetch), and normalization then     *)
(* runs on the original content: the entry keeps its type, ends with the   *)
(* profile fields the parsed entry has, and the missing-field warnings and *)
(* the texts sent to the rewrite service are those of the parsed entry.    *)
(***************************************************************************)
FetchReturned(j) ==
    /\ CallsOf(fetchCalls, entries[j].key) # << >>
    /\ status[j] # "failed"

C13_FetchFailureIsValue ==
    \A j \in 1..Len(entries) :
        ( /\ FetchReturned(j)
          /\ \A c \in Range(CallsOf(fetchCalls, entries[j].key)) :
                Len(DblpPayload(c.url)) # 1 )
        => LET key == parsed[j].key
               missing == MissingOf(parsed[j])
           IN  /\ Len(CallsOf(fetchCalls, key)) = 1
               /\ j = idx => pc \notin {"entry", "prompt", "fetch"}
               /\ LogOf("Failed to parse bibtex from DBLP", key)
                    = << Warn("Failed to parse bibtex from DBLP", key, None) >>
               /\ LogOf("Failed to convert entry", key) = << >>
               /\ entries[j].key = key
               /\ entries[j].entry_type = parsed[j].entry_type
               /\ status[j] = "pending" => entries[j] = parsed[j]
               /\ status[j] = "done" =>
                    /\ FieldKeys(entries[j].fields) = PresentOf(parsed[j])
                    /\ \A i \in 1..Len(entries[j].fields) :
                         \/ use_ai /\ entries[j].fields[i].key \in {"title", Venue(parsed[j])}
                         \/ entries[j].fields[i].value
                              = FieldValue(parsed[j].fields, entries[j].fields[i].key)
                    /\ LogOf("Missing field", key)
                         = [i \in 1..Len(missing) |-> Warn("Missing field", key, missing[i])]
                    /\ \A a \in Range(CallsOf(aiCalls, key)) :
                         a.text = FieldValue(parsed[j].fields, a.field)

\* The only candidate of the first entry had an empty payload and the entry
\* was then reduced from its parsed fields; the operator chose the second of
\* several candidates for the second entry, its payload held two records,
\* and the resolver has returned with the entry as parsed.
C13_Witness ==
    /\ pc = "dispatch"
    /\ idx = 2
    /\ chosen = 2
    /\ Len(fetchCalls) = 2
    /\ fetchCalls[1] = [key |-> entries[1].key, url |-> "u3"]
    /\ fetchCalls[2] = [key |-> entries[2].key, url |-> "u4"]
    /\ status = << "done", "pending" >>
    /\ HasField(parsed[1].fields, "note")
    /\ FieldKeys(entries[1].fields) = PresentOf(parsed[1])
    /\ entries[2] = parsed[2]
    /\ Len(LogOf("Failed to parse bibtex from DBLP", entries[1].key)) = 1
    /\ Len(LogOf("Failed to parse bibtex from DBLP", entries[2].key)) = 1

(***************************************************************************)
(* C14.  Idempotence: with index lookup and rewriting disabled, applying   *)
(* normalization to a record that is already the result of normalization   *)
(* leaves its type and its field list (fields, values, order) as they are, *)
(* for every kind of record and every set of fields present.               *)
(***************************************************************************)
AlreadyNormalized == pc = "entry" /\ status[idx] = "done"

C14_Idempotent ==
    [][(AlreadyNormalized /\ ~use_dblp /\ ~use_ai /\ pc' = "write") =>
         /\ entries'[idx].entry_type = entries[idx].entry_type
         /\ entries'[idx].fields = entries[idx].fields
         /\ entries' = entries]_vars

\* An article given as pages, year, title, note (in that order) was
\* normalized to title, year, and normalized a second time with the same
\* result and the same two warnings again.
C14_Witness ==
    /\ pc = "write"
    /\ ~use_dblp
    /\ ~use_ai
    /\ entries = parsed
    /\ entries[1].entry_type = "article"
    /\ FieldKeys(entries[1].fields) = << "title", "year" >>
    /\ Len(LogOf("Missing field", entries[1].key)) = 4

(***************************************************************************)
(* C15.  The record set is preserved: in every state of the run, under     *)
(* every setting of the options and after every fault, the library has as  *)
(* many entries as were parsed, with the parsed keys in parse order, and    *)
(* every library handed to the serializer had exactly those keys in that   *)
(* order.                                                                  *)
(***************************************************************************)
ParsedKeys == [i \in 1..Len(parsed) |-> parsed[i].key]

C15_RecordSetPreserved ==
    /\ Len(entries) = Len(parsed)
    /\ [i \in 1..Len(entries) |-> entries[i].key] = ParsedKeys
    /\ \A w \in 1..Len(writes) : writes[w].keys = ParsedKeys

\* Of two entries the first was replaced by a fetched record and the second
\* failed; the library was handed to the serializer with both keys after
\* each of them.
C15_Witness ==
    /\ pc = "done"
    /\ Len(parsed) = 2
    /\ entries[1].fields # parsed[1].fields
    /\ CallsOf(fetchCalls, parsed[1].key) # << >>
    /\ entries[1].entry_type = "phdthesis"
    /\ status = << "done", "failed" >>
    /\ Len(writes) = 2
    /\ writes[2].keys = << parsed[1].key, parsed[2].key >>

(***************************************************************************)
(* C16.  Rewrite scope.  The rewrite service is called only when rewriting *)
(* is enabled; every call for an entry sends the value of a field that the *)
(* record handed to normalization has, and that field is the title or the  *)
(* venue field of the record's type (journal for article, booktitle for    *)
(* inproceedings); per entry the fields sent are at most the title once    *)
(* and then the venue once; author, year and pages are never sent and keep *)
(* the value they had when the record was handed to normalization.         *)
(***************************************************************************)
\* The record convert_* received for entry j: the fetched one when a fetch
\* replaced the entry, the parsed one otherwise.
Handed(j) ==
    LET replaced == {c \in Range(CallsOf(fetchCalls, parsed[j].key)) :
                       Len(DblpPayload(c.url)) = 1}
    IN  IF status[j] = "done" /\ replaced # {}
        THEN LET fetched == DblpPayload((CHOOSE c \in replaced : TRUE).url)[1]
             IN  Entry(parsed[j].key, fetched.entry_type, fetched.fields)
        ELSE parsed[j]

C16_RewriteScope ==
    /\ aiCalls # << >> => use_ai
    /\ \A c \in Range(aiCalls) : \E j \in 1..Len(entries) : c.key = entries[j].key
    /\ \A j \in 1..Len(entries) :
         LET sent == CallsOf(aiCalls, entries[j].key)
             venue == Venue(Handed(j))
         IN  /\ sent # << >> => Known(Handed(j))
             /\ [i \in 1..Len(sent) |-> sent[i].field]
                  \in { << >>, << "title" >>, << venue >>, << "title", venue >> }
             /\ \A i \in 1..Len(sent) :
                  /\ HasField(Handed(j).fields, sent[i].field)
                  /\ sent[i].text = FieldValue(Handed(j).fields, sent[i].field)
             /\ \A k \in {"author", "year", "pages"} :
                  (status[j] = "done" /\ Known(Handed(j)) /\ HasField(entries[j].fields, k)) =>
                      /\ HasField(Handed(j).fields, k)
                      /\ FieldValue(entries[j].fields, k) = FieldValue(Handed(j).fields, k)

\* With rewriting enabled a complete inproceedings entry was normalized:
\* the title and then the booktitle were sent, both came back rewritten, and
\* author, year and pages are as parsed.
C16_Witness ==
    \E j \in 1..Len(entries) :
        /\ use_ai
        /\ status[j] = "done"
        /\ parsed[j].entry_type = "inproceedings"
        /\ MissingOf(parsed[j]) = << >>
        /\ CallsOf(fetchCalls, parsed[j].key) = << >>
        /\ CallsOf(aiCalls, parsed[j].key)
             = << [key |-> parsed[j].key, field |-> "title",
                   text |-> FieldValue(parsed[j].fields, "title")],
                  [key |-> parsed[j].key, field |-> "booktitle",
                   text |-> FieldValue(parsed[j].fields, "booktitle")] >>
        /\ FieldValue(entries[j].fields, "title") = "Revised Text"
        /\ FieldValue(entries[j].fields, "booktitle") = "Revised Text"
        /\ \A k \in {"author", "year", "pages"} :
             FieldValue(entries[j].fields, k) = FieldValue(parsed[j].fields, k)

(***************************************************************************)
(* C17.  With rewriting disabled, converting an article or inproceedings   *)
(* record leaves as its field list exactly the fields of the profile that  *)
(* the record had, with the values it had, in profile order, and logs      *)
(* exactly as many missing-field warnings for the record as the profile    *)
(* has fields the record lacks (and nothing else); the type and the key    *)
(* stay.                                                                   *)
(***************************************************************************)
C17_ProfileSubsequence ==
    [][(pc = "entry" /\ Known(entries[idx]) /\ ~use_ai /\ pc' = "write") =>
         LET before == entries[idx]
             after == entries'[idx]
             present == PresentOf(before)
         IN  /\ after.fields
                  = [i \in 1..Len(present) |->
                       Fld(present[i], FieldValue(before.fields, present[i]))]
             /\ after.entry_type = before.entry_type
             /\ after.key = before.key
             /\ Len(SelectSeq(Appended,
                              LAMBDA r : r.msg = "Missing field" /\ r.key = before.key))
                  = Len(MissingOf(before))
             /\ Len(Appended) = Len(MissingOf(before))]_vars

\* An inproceedings record given as note, pages, booktitle, author (the
\* reverse of the profile order) was converted: it now has author,
\* booktitle, pages with their values, and two warnings were logged, for
\* title and year.
C17_Witness ==
    /\ pc = "write"
    /\ ~use_ai
    /\ parsed[1].entry_type = "inproceedings"
    /\ FieldKeys(parsed[1].fields) = << "note", "pages", "booktitle", "author" >>
    /\ entries[1].fields = << Fld("author", FieldText("author")),
                              Fld("booktitle", FieldText("booktitle")),
                              Fld("pages", FieldText("pages")) >>
    /\ Len(LogOf("Missing field", entries[1].key)) = 2
    /\ Len(log) = 2

(***************************************************************************)
(* C18.  With index lookup enabled, when the search, the fetch or the      *)
(* prompt raised for an entry (the except block logged its warning), the   *)
(* dispatch was skipped for that entry: the entry has, from then on and in *)
(* the output, the type and the whole field list parsed from the input,    *)
(* fields outside the profile included; no missing-field or type warning   *)
(* was logged for it and nothing of it was sent to the rewrite service.    *)
(***************************************************************************)
Raised(j) == LogOf("Failed to convert entry", parsed[j].key) # << >>

C18_FaultSkipsNormalization ==
    \A j \in 1..Len(entries) :
        Raised(j) =>
            /\ use_dblp
            /\ CallsOf(searchCalls, parsed[j].key) # << >>
            /\ entries[j] = parsed[j]
            /\ LogOf("Missing field", parsed[j].key) = << >>
            /\ LogOf("Manually check bibentry of type", parsed[j].key) = << >>
            /\ CallsOf(aiCalls, parsed[j].key) = << >>
            /\ j = idx => pc \in {"write", "fatal"}

\* With lookup and rewriting enabled, the search raised for the first entry
\* and the fetch for the second; the run is over and both entries, one with
\* a field outside its profile and one lacking profile fields, are as parsed.
C18_Witness ==
    /\ pc = "done"
    /\ use_dblp
    /\ use_ai
    /\ Len(entries) = 2
    /\ Raised(1)
    /\ Raised(2)
    /\ CallsOf(fetchCalls, parsed[1].key) = << >>
    /\ CallsOf(fetchCalls, parsed[2].key) # << >>
    /\ HasField(parsed[1].fields, "note")
    /\ MissingOf(parsed[1]) = << >>
    /\ MissingOf(parsed[2]) # << >>
    /\ entries = parsed
    /\ aiCalls = << >>

(***************************************************************************)
(* C19.  For every entry the index search is called at most once and the   *)
(* fetch at most once (and only after the search), whatever answers the    *)
(* prompt refused before the one it accepted; with index lookup disabled   *)
(* neither is ever called and every entry keeps the type it was parsed     *)
(* with.                                                                   *)
(***************************************************************************)
C19_OneSearchOneFetch ==
    /\ \A j \in 1..Len(entries) :
         /\ Len(CallsOf(searchCalls, parsed[j].key)) <= 1
         /\ Len(CallsOf(fetchCalls, parsed[j].key)) <= Len(CallsOf(searchCalls, parsed[j].key))
         /\ j > idx => CallsOf(searchCalls, parsed[j].key) = << >>
    /\ Len(searchCalls) <= Len(entries)
    /\ ~use_dblp =>
         /\ searchCalls = << >>
         /\ fetchCalls = << >>
         /\ \A j \in 1..Len(entries) : entries[j].entry_type = parsed[j].entry_type

\* The prompt refused an answer, then accepted one for the second candidate,
\* and the fetch has returned: one search and one fetch for the entry.
C19_Witness ==
    /\ pc = "dispatch"
    /\ use_dblp
    /\ prompts = MaxPrompts
    /\ chosen = 2
    /\ Len(CallsOf(searchCalls, entries[idx].key)) = 1
    /\ Len(CallsOf(fetchCalls, entries[idx].key)) = 1
    /\ entries[idx].entry_type # parsed[idx].entry_type

=============================================================================
